---- MODULE Spec2Model ----
(***************************************************************************)
(* JSON-to-relational decomposition engine of large_json_agent             *)
(* (src/data_prep.py): index_json walks a JSON document, creates one       *)
(* DuckDB table per containment path, inserts one row per object, records  *)
(* parent/child lineage in record_relationships and keeps the catalog      *)
(* schema_info.  The storage backend (DuckDB) is modelled by what the SQL  *)
(* statements issued by the code do to the database.                       *)
(***************************************************************************)
EXTENDS Integers, Sequences, FiniteSets, TLC

(***************************************************************************)
(* Bounds of the model.                                                    *)
(***************************************************************************)
\* Largest number of JSON values (objects, arrays, scalars) below the root
\* of a deeply nested document, and one more than the largest number of
\* values in a top-level value or array element of a broad or wide one.
MaxNodes == 4
\* Longest generated JSON array.
MaxArr == 2
\* Largest number of fields of a generated JSON object.
MaxFields == 2
\* Number of index_json runs against the same destination.
MaxRuns == 2
\* Largest number of JSON values below the root of a document that is
\* indexed when the destination is indexed more than once.
MaxRerunNodes == 3
\* Number of objects, the root included, of the most deeply nested chain
\* document {"a": {"a": ... "s"}}.
MaxChain == 5

\* Keys of generated objects.  "a_a" is both a key and the name
\* f"{table_name}_{key}" of the table nested under key "a" of table "a".
Keys == {"a", "a_a"}
\* Keys of the documents indexed when the destination is indexed more than once.
RerunKeys == {"a"}

(***************************************************************************)
(* JSON values (the result of json.load): a str scalar, a dict (ordered,   *)
(* distinct keys k with values v) or a list (elements v).                  *)
(***************************************************************************)
Scalar == [t |-> "str", k |-> <<>>, v |-> <<>>]
Dict(ks, vs) == [t |-> "dict", k |-> ks, v |-> vs]
List(vs) == [t |-> "list", k |-> <<>>, v |-> vs]

IsDict(x) == x.t = "dict"
IsList(x) == x.t = "list"
\* Python truthiness of a dict or list: non-empty.
Truthy(x) == Len(x.v) > 0

Range(s) == {s[i] : i \in 1..Len(s)}

\* Sequences of n distinct keys from K.
KeySeqs(n, K) == {ks \in [1..n -> K] : \A i, j \in 1..n : i # j => ks[i] # ks[j]}

RECURSIVE ValuesOfSize(_, _)
RECURSIVE SeqsOfSize(_, _, _)
\* Sequences of at most maxlen values whose sizes add up to n.
SeqsOfSize(n, maxlen, K) ==
    IF n = 0 THEN {<<>>}
    ELSE IF maxlen = 0 THEN {}
    ELSE UNION {{<<x>> \o r : x \in ValuesOfSize(s, K), r \in SeqsOfSize(n - s, maxlen - 1, K)}
                : s \in 1..n}
\* JSON values made of exactly n values (itself included), with keys from K.
ValuesOfSize(n, K) ==
    (IF n = 1 THEN {Scalar} ELSE {})
    \cup {List(vs) : vs \in SeqsOfSize(n - 1, MaxArr, K)}
    \cup UNION {{Dict(ks, vs) : ks \in KeySeqs(Len(vs), K)}
                : vs \in {s \in SeqsOfSize(n - 1, MaxFields, K) : Len(s) <= Cardinality(K)}}
ValuesUpTo(n, K) == UNION {ValuesOfSize(m, K) : m \in 1..n}

\* Objects with at most n values below the root.
Objects(n, K) == {x \in ValuesUpTo(n + 1, K) : IsDict(x)}
\* What json.load returns when the file holds no object: a scalar or a list.
NonObjects == {x \in ValuesUpTo(2, Keys) : ~IsDict(x)}
\* Up to MaxFields top-level keys, each holding any value of fewer than
\* MaxNodes values: sibling top-level keys.
TopValues == ValuesUpTo(MaxNodes - 1, Keys)
BroadDocs ==
    UNION {{Dict(ks, vs) : ks \in KeySeqs(n, Keys), vs \in [1..n -> TopValues]}
           : n \in {m \in 1..MaxFields : m <= Cardinality(Keys)}}
\* One top-level key holding an array of up to MaxArr objects, each of fewer
\* than MaxNodes values: sibling records that feed the same child table.
Elems == {x \in TopValues : IsDict(x)}
WideDocs ==
    {Dict(<<key>>, <<List(es)>>) :
        key \in Keys, es \in UNION {[1..n -> Elems] : n \in 1..MaxArr}}

\* Non-empty arrays with an element that is no object.
MixedArrays == {x \in TopValues : IsList(x) /\ Truthy(x) /\ \E i \in 1..Len(x.v) : ~IsDict(x.v[i])}
\* Two top-level keys, in either order: one holds such an array, the other an
\* object whose keys may be "value", the column index_json gives the table of
\* a top-level value that is no object and no array of objects.
ValueKeys == {"a", "value"}
ValueDocs ==
    UNION {{Dict(ks, <<v, w>>), Dict(ks, <<w, v>>)} :
           ks \in KeySeqs(2, Keys),
           v \in {x \in ValuesUpTo(MaxNodes - 1, ValueKeys) : IsDict(x)},
           w \in MixedArrays}

RECURSIVE Chain(_)
\* n objects nested one in the other under key "a", around a scalar.
Chain(n) == IF n = 0 THEN Scalar ELSE Dict(<<"a">>, <<Chain(n - 1)>>)
ChainDocs == {Chain(n) : n \in 1..MaxChain}

\* The inputs of index_json on a fresh destination: every object of at most
\* MaxNodes values (deep nesting), the broad and the wide ones, those with a
\* top-level array that is no array of objects, the chains, and inputs that
\* are no object.  RerunDocs are the inputs used when a destination is indexed
\* repeatedly.
Docs == Objects(MaxNodes, Keys) \cup BroadDocs \cup WideDocs \cup ValueDocs \cup ChainDocs
            \cup NonObjects
RerunDocs == Objects(MaxRerunNodes, RerunKeys) \cup NonObjects

(***************************************************************************)
(* Python conversions used by the engine.                                  *)
(***************************************************************************)
Digits == <<"0", "1", "2", "3", "4", "5", "6", "7", "8", "9">>
RECURSIVE IntStr(_)
\* str(n) / f"{n}" of a non-negative int.
IntStr(n) == IF n < 10 THEN Digits[n + 1] ELSE IntStr(n \div 10) \o Digits[(n % 10) + 1]

RECURSIVE PyRepr(_)
RECURSIVE PyReprItems(_, _, _)
\* The comma separated reprs of the members of a dict or list, from member i.
PyReprItems(x, i, first) ==
    IF i > Len(x.v) THEN ""
    ELSE (IF first THEN "" ELSE ", ")
         \o (IF IsDict(x) THEN "'" \o x.k[i] \o "': " ELSE "")
         \o PyRepr(x.v[i])
         \o PyReprItems(x, i + 1, FALSE)
\* repr(x): what str() of a container shows for its members.
PyRepr(x) ==
    IF IsDict(x) THEN "{" \o PyReprItems(x, 1, TRUE) \o "}"
    ELSE IF IsList(x) THEN "[" \o PyReprItems(x, 1, TRUE) \o "]"
    ELSE "'s'"
\* str(x), the text stored in a TEXT column.
PyStr(x) == IF IsDict(x) \/ IsList(x) THEN PyRepr(x) ELSE "s"

\* all(isinstance(i, dict) for i in value)
AllDicts(x) == \A i \in 1..Len(x.v) : IsDict(x.v[i])

\* schema = set(); for item in data: schema.update(item.keys())
InferSchemaFirst(items) == IF Len(items) = 0 THEN {} ELSE Range(items[1].k)
InferSchema(items) == UNION {Range(items[i].k) : i \in 1..Len(items)}

(***************************************************************************)
(* The statements the engine sends to the storage backend.  index_json is  *)
(* a depth-first walk whose only dependence on the backend is that a       *)
(* failing statement raises and ends the walk, so the walk is the sequence *)
(* of statements it issues, executed one at a time.  None / NULL is the    *)
(* empty sequence, a value x is <<x>>.                                     *)
(***************************************************************************)
NoMeta == [parent_table |-> <<>>, description |-> "", is_array |-> FALSE, count |-> <<>>]

\* columns is the column list of the text of a CREATE TABLE statement; it is
\* built from schema by create_table when the statement is issued (WithColumns).
Stmt(op, name, cols, vals, id, meta, rel, src) ==
    [op |-> op, name |-> name, cols |-> cols, vals |-> vals, id |-> id,
     meta |-> meta, rel |-> rel, src |-> src, columns |-> <<>>]
Plain(op, name) == Stmt(op, name, {}, <<>>, 0, NoMeta, <<>>, <<>>)

\* create_table writing the catalog row before it creates the table.
CreateTableCatalogFirst(table_name, schema, parent_table, is_array, count, description, src) ==
    LET meta == [parent_table |-> parent_table, description |-> description,
                 is_array |-> is_array, count |-> count]
    IN  << Stmt("upsert_schema_info", table_name, schema, <<>>, 0, meta, <<>>, <<src>>),
           Stmt("create_data_table", table_name, schema, <<>>, 0, meta, <<>>, <<src>>) >>
\* create_table: CREATE TABLE IF NOT EXISTS, then INSERT OR REPLACE INTO schema_info.
\* src is the value the schema was inferred from.
create_table(table_name, schema, parent_table, is_array, count, description, src) ==
    LET meta == [parent_table |-> parent_table, description |-> description,
                 is_array |-> is_array, count |-> count]
    IN  << Stmt("create_data_table", table_name, schema, <<>>, 0, meta, <<>>, <<src>>),
           Stmt("upsert_schema_info", table_name, schema, <<>>, 0, meta, <<>>, <<src>>) >>

RECURSIVE insert_data(_, _, _, _, _)
RECURSIVE process_nested_data(_, _, _, _, _)
RECURSIVE InsertRecord(_, _, _, _, _, _)
RECURSIVE InsertItems(_, _, _, _, _, _)
RECURSIVE NestedFields(_, _, _, _, _)

\* for key, value in item.items(): if isinstance(value, (dict, list)) and value: ...
NestedFields(table_name, item, j, record_id, nid) ==
    IF j > Len(item.k) THEN [calls |-> <<>>, nid |-> nid]
    ELSE LET value == item.v[j]
             r == IF (IsDict(value) \/ IsList(value)) /\ Truthy(value)
                  THEN process_nested_data(table_name \o "_" \o item.k[j], value,
                                           record_id, table_name, nid)
                  ELSE [calls |-> <<>>, nid |-> nid]
             rest == NestedFields(table_name, item, j + 1, record_id, r.nid)
         IN  [calls |-> r.calls \o rest.calls, nid |-> rest.nid]

\* InsertRecord with the relationship entry written before the row.
InsertRecordRelFirst(table_name, item, parent_id, parent_table, kind, nid) ==
    LET record_id == nid
        ins == Stmt("insert_row", table_name, Range(item.k),
                    [i \in 1..Len(item.k) |-> <<item.k[i], PyStr(item.v[i])>>],
                    record_id, NoMeta, <<>>, <<item>>)
        rel == IF parent_id # <<>>
               THEN << Stmt("insert_relationship", table_name, {}, <<>>, record_id, NoMeta,
                            << [child_id |-> record_id, parent_id |-> parent_id[1],
                                child_table |-> table_name, parent_table |-> parent_table[1],
                                relationship_type |-> kind] >>, <<>>) >>
               ELSE <<>>
        nested == NestedFields(table_name, item, 1, record_id, nid + 1)
    IN  [calls |-> rel \o <<ins>> \o nested.calls, nid |-> nested.nid]

\* One element: uuid4(), INSERT of the row, the relationship entry when
\* there is a parent, then the nested fields.  nid is the next fresh uuid.
InsertRecord(table_name, item, parent_id, parent_table, kind, nid) ==
    LET record_id == nid
        ins == Stmt("insert_row", table_name, Range(item.k),
                    [i \in 1..Len(item.k) |-> <<item.k[i], PyStr(item.v[i])>>],
                    record_id, NoMeta, <<>>, <<item>>)
        rel == IF parent_id # <<>>
               THEN << Stmt("insert_relationship", table_name, {}, <<>>, record_id, NoMeta,
                            << [child_id |-> record_id, parent_id |-> parent_id[1],
                                child_table |-> table_name, parent_table |-> parent_table[1],
                                relationship_type |-> kind] >>, <<>>) >>
               ELSE <<>>
        nested == NestedFields(table_name, item, 1, record_id, nid + 1)
    IN  [calls |-> <<ins>> \o rel \o nested.calls, nid |-> nested.nid]

\* for i, item in enumerate(data): if isinstance(item, dict): ...
InsertItems(table_name, items, i, parent_id, parent_table, nid) ==
    IF i > Len(items) THEN [calls |-> <<>>, nid |-> nid]
    ELSE LET r == IF IsDict(items[i])
                  THEN InsertRecord(table_name, items[i], parent_id, parent_table,
                                    "array_item[" \o IntStr(i - 1) \o "]", nid)
                  ELSE [calls |-> <<>>, nid |-> nid]
             rest == InsertItems(table_name, items, i + 1, parent_id, parent_table, r.nid)
         IN  [calls |-> r.calls \o rest.calls, nid |-> rest.nid]

insert_data(table_name, data, parent_id, parent_table, nid) ==
    IF IsList(data)
    THEN InsertItems(table_name, data.v, 1, parent_id, parent_table, nid)
    ELSE IF IsDict(data)
    THEN InsertRecord(table_name, data, parent_id, parent_table, "object_field", nid)
    ELSE [calls |-> <<>>, nid |-> nid]

\* process_nested_data inserting the records before it registers the table.
ProcessNestedInsertFirst(table_name, data, parent_id, parent_table, nid) ==
    IF IsList(data) /\ Truthy(data) /\ AllDicts(data)
    THEN LET ins == insert_data(table_name, data, <<parent_id>>, <<parent_table>>, nid)
         IN  [calls |-> ins.calls
                        \o create_table(table_name, InferSchema(data.v), <<parent_table>>, TRUE,
                                        <<Len(data.v)>>,
                                        "Array of " \o IntStr(Len(data.v)) \o " items from "
                                            \o parent_table, data),
              nid |-> ins.nid]
    ELSE IF IsDict(data)
    THEN LET ins == insert_data(table_name, data, <<parent_id>>, <<parent_table>>, nid)
         IN  [calls |-> ins.calls
                        \o create_table(table_name, Range(data.k), <<parent_table>>, FALSE, <<>>,
                                        "Object field from " \o parent_table, data),
              nid |-> ins.nid]
    ELSE [calls |-> <<>>, nid |-> nid]
\* process_nested_data taking every non-empty array for an array of objects.
ProcessNestedAnyArray(table_name, data, parent_id, parent_table, nid) ==
    IF IsList(data) /\ Truthy(data)
    THEN LET ins == insert_data(table_name, data, <<parent_id>>, <<parent_table>>, nid)
         IN  [calls |-> create_table(table_name, InferSchema(data.v), <<parent_table>>, TRUE,
                                     <<Len(data.v)>>,
                                     "Array of " \o IntStr(Len(data.v)) \o " items from "
                                         \o parent_table, data)
                        \o ins.calls,
              nid |-> ins.nid]
    ELSE IF IsDict(data)
    THEN LET ins == insert_data(table_name, data, <<parent_id>>, <<parent_table>>, nid)
         IN  [calls |-> create_table(table_name, Range(data.k), <<parent_table>>, FALSE, <<>>,
                                     "Object field from " \o parent_table, data)
                        \o ins.calls,
              nid |-> ins.nid]
    ELSE [calls |-> <<>>, nid |-> nid]
process_nested_data(table_name, data, parent_id, parent_table, nid) ==
    IF IsList(data) /\ Truthy(data) /\ AllDicts(data)
    THEN LET ins == insert_data(table_name, data, <<parent_id>>, <<parent_table>>, nid)
         IN  [calls |-> create_table(table_name, InferSchema(data.v), <<parent_table>>, TRUE,
                                     <<Len(data.v)>>,
                                     "Array of " \o IntStr(Len(data.v)) \o " items from "
                                         \o parent_table, data)
                        \o ins.calls,
              nid |-> ins.nid]
    ELSE IF IsDict(data)
    THEN LET ins == insert_data(table_name, data, <<parent_id>>, <<parent_table>>, nid)
         IN  [calls |-> create_table(table_name, Range(data.k), <<parent_table>>, FALSE, <<>>,
                                     "Object field from " \o parent_table, data)
                        \o ins.calls,
              nid |-> ins.nid]
    ELSE [calls |-> <<>>, nid |-> nid]

RECURSIVE TopLevel(_, _, _)
\* for key, value in json_data.items(): the three branches of index_json.
TopLevel(json, i, nid) ==
    IF i > Len(json.k) THEN <<>>
    ELSE LET key == json.k[i]
             value == json.v[i]
             r == IF IsList(value) /\ AllDicts(value)
                  THEN LET ins == insert_data(key, value, <<>>, <<>>, nid)
                       IN  [calls |-> create_table(key, InferSchema(value.v), <<>>, TRUE,
                                                   <<Len(value.v)>>,
                                                   "Top-level array containing "
                                                       \o IntStr(Len(value.v)) \o " items",
                                                   value)
                                      \o ins.calls,
                            nid |-> ins.nid]
                  ELSE IF IsDict(value)
                  THEN LET ins == insert_data(key, value, <<>>, <<>>, nid)
                       IN  [calls |-> create_table(key, Range(value.k), <<>>, FALSE, <<>>,
                                                   "Top-level object", value)
                                      \o ins.calls,
                            nid |-> ins.nid]
                  ELSE LET ins == insert_data(key, Dict(<<"value">>, <<value>>), <<>>, <<>>, nid)
                       IN  [calls |-> create_table(key, {"value"}, <<>>, FALSE, <<>>,
                                                   "Top-level scalar value", value)
                                      \o ins.calls,
                            nid |-> ins.nid]
         IN  r.calls \o TopLevel(json, i + 1, r.nid)

\* create_metadata_views, then the data_overview view of index_json.
create_metadata_views ==
    << Plain("create_view", "table_hierarchy"), Plain("create_view", "table_statistics") >>

create_schema_tables ==
    << Plain("create_system_table", "schema_info"),
       Plain("create_system_table", "record_relationships") >>

\* The statements of index_json(db_name, json_data, ...) in the order the
\* code issues them, the first fresh uuid being nid.  json_data.items() of a
\* value that is no dict raises AttributeError.
index_json(json_data, nid) ==
    << Plain("connect", "") >> \o create_schema_tables
    \o (IF IsDict(json_data)
        THEN TopLevel(json_data, 1, nid)
             \o create_metadata_views
             \o << Plain("create_view", "data_overview"), Plain("commit", ""), Plain("close", "") >>
        ELSE << Plain("raise", "AttributeError") >>)

\* The orders in which a Python process can iterate over a set of str: str
\* hashes are salted when the interpreter starts, so a process has one order
\* of the keys, any of them, and a set comes out as its members in that
\* order.  Keys are the keys of the array elements of the generated documents.
HashOrders == KeySeqs(Cardinality(Keys), Keys)
\* for col in schema, schema a set
SetOrder(seed, schema) ==
    LET In(k) == k \in schema
    IN  SelectSeq(seed, In)
\* columns = ", ".join([f'"{col}" TEXT' for col in schema]): schema is a set
\* in the array branches, value.keys() / data.keys() in the object branches
\* and ["value"] in the scalar branch.
ColumnList(st, seed) ==
    IF st.meta.is_array THEN SetOrder(seed, st.cols)
    ELSE IF st.meta.description = "Top-level scalar value" THEN <<"value">>
    ELSE st.src[1].k
\* The statements of a walk in a process whose hash order is seed.
WithColumns(stmts, seed) ==
    [i \in 1..Len(stmts) |->
        IF stmts[i].op = "create_data_table"
        THEN [stmts[i] EXCEPT !.columns = ColumnList(stmts[i], seed)]
        ELSE stmts[i]]

(***************************************************************************)
(* State: the destination {db_name}.duckdb and the run of index_json.      *)
(***************************************************************************)
VARIABLES
    json_data,              \* the document of the current or last run
    pc,                     \* "idle", "running", "done" (returned), "failed" (raised)
    calls,                  \* statements the running walk has still to issue
    error,                  \* the exception that ended the last run, "" if none
    runs,                   \* number of index_json calls started
    uuids,                  \* number of uuid4() values generated so far
    dbFile,                 \* the database file exists
    conn,                   \* the connection opened by index_json is open
    sysTables,              \* which of schema_info, record_relationships exist
    schema_info,            \* rows of the catalog table schema_info
    record_relationships,   \* rows of record_relationships, in insertion order
    tables,                 \* data tables: name -> [columns, rows, definition]
    views,                  \* views that exist
    finished,               \* per ended run: document, outcome, row count per table
    tool                    \* the last call of an agent tool and how it ended

vars == <<json_data, pc, calls, error, runs, uuids, dbFile, conn, sysTables,
          schema_info, record_relationships, tables, views, finished, tool>>
dbVars == <<dbFile, conn, sysTables, schema_info, record_relationships, tables, views>>

\* No tool was called yet.
NoTool == [name |-> "none", target |-> "", fault |-> "none", result |-> "none", closed |-> TRUE]
NoTables == [n \in {} |-> [columns |-> {}, rows |-> {}, definition |-> <<>>]]
TableNames == DOMAIN tables
RowCount(t) == Cardinality(tables[t].rows)
RecordIds(t) == {r.record_id : r \in tables[t].rows}

Init ==
    /\ json_data = Dict(<<>>, <<>>)
    /\ pc = "idle"
    /\ calls = <<>>
    /\ error = ""
    /\ runs = 0
    /\ uuids = 0
    /\ dbFile = FALSE
    /\ conn = FALSE
    /\ sysTables = {}
    /\ schema_info = {}
    /\ record_relationships = <<>>
    /\ tables = NoTables
    /\ views = {}
    /\ finished = <<>>
    /\ tool = NoTool

(***************************************************************************)
(* The storage backend.                                                    *)
(***************************************************************************)
\* The statements DuckDB rejects in every case: an INSERT naming a column
\* the table does not have, into a table that does not exist, or with a
\* record_id already present (PRIMARY KEY); a statement on a catalog table
\* that does not exist.  Every other statement can succeed (Exec) and can
\* fail (ExecFail): the backend may be unavailable, and whether the empty
\* column list "(record_id, )" built for an empty object or array parses
\* depends on the DuckDB build.
Accepts(st) ==
    CASE st.op = "insert_row" ->
            /\ st.name \in TableNames
            /\ st.cols \subseteq tables[st.name].columns
            /\ st.id \notin RecordIds(st.name)
      [] st.op = "upsert_schema_info" -> "schema_info" \in sysTables
      [] st.op = "insert_relationship" -> "record_relationships" \in sysTables
      [] st.op = "create_view" -> "schema_info" \in sysTables
      [] st.op = "raise" -> FALSE
      [] OTHER -> TRUE

\* CREATE TABLE IF NOT EXISTS "{table_name}" (record_id UUID PRIMARY KEY, {columns})
CreateDataTableReplacing(tbls, st) ==
    (st.name :> [columns |-> st.cols, rows |-> {}, definition |-> st.columns]) @@ tbls
\* definition is the column list of the statement that created the table.
CreateDataTable(tbls, st) ==
    IF st.name \in DOMAIN tbls THEN tbls
    ELSE (st.name :> [columns |-> st.cols, rows |-> {}, definition |-> st.columns]) @@ tbls

SchemaRow(st) ==
    [table_name |-> st.name, parent_table |-> st.meta.parent_table,
     description |-> st.meta.description, is_array |-> st.meta.is_array,
     count |-> st.meta.count]
\* INSERT OR REPLACE INTO schema_info (table_name is the PRIMARY KEY)
UpsertKeepingOld(rows, st) == rows \cup {SchemaRow(st)}
UpsertSchemaInfo(rows, st) ==
    {r \in rows : r.table_name # st.name} \cup {SchemaRow(st)}

\* InsertRow with the new row taking the place of the rows of the table.
InsertRowOverwriting(tbls, st) ==
    [tbls EXCEPT ![st.name].rows = {[record_id |-> st.id, values |-> st.vals]}]
\* INSERT INTO "{table_name}" (record_id, {columns}) VALUES (?, {placeholders})
InsertRow(tbls, st) ==
    [tbls EXCEPT ![st.name].rows = @ \cup {[record_id |-> st.id, values |-> st.vals]}]

\* The effect of an accepted statement on the database.
Apply(st) ==
    /\ dbFile' = (dbFile \/ st.op = "connect")
    /\ conn' = IF st.op = "connect" THEN TRUE ELSE IF st.op = "close" THEN FALSE ELSE conn
    /\ sysTables' = IF st.op = "create_system_table" THEN sysTables \cup {st.name} ELSE sysTables
    /\ tables' = CASE st.op = "create_data_table" -> CreateDataTable(tables, st)
                   [] st.op = "insert_row" -> InsertRow(tables, st)
                   [] OTHER -> tables
    /\ schema_info' = IF st.op = "upsert_schema_info"
                      THEN UpsertSchemaInfo(schema_info, st) ELSE schema_info
    /\ record_relationships' = IF st.op = "insert_relationship"
                               THEN Append(record_relationships, st.rel[1])
                               ELSE record_relationships
    /\ views' = IF st.op = "create_view" THEN views \cup {st.name} ELSE views

\* uuid4() is called right before the INSERT of a row, whether the INSERT
\* succeeds or not.
UuidsAfter(st) == IF st.op = "insert_row" THEN st.id + 1 ELSE uuids

Summary(outcome, tbls) ==
    [doc |-> json_data, outcome |-> outcome,
     catalog |-> {r.table_name : r \in schema_info},
     rows |-> [t \in DOMAIN tbls |-> Cardinality(tbls[t].rows)]]

(***************************************************************************)
(* Actions.                                                                *)
(***************************************************************************)
\* index_json(db_name, doc, ...) is called, in a process of its own
\* (main.py indexes when the application starts).
Start(doc) ==
    /\ pc # "running"
    /\ json_data' = doc
    /\ pc' = "running"
    /\ \E seed \in HashOrders : calls' = WithColumns(index_json(doc, uuids), seed)
    /\ error' = ""
    /\ runs' = runs + 1
    /\ UNCHANGED <<uuids, dbVars, finished, tool>>

\* Exec with the executed statement put back at the end of the walk.
ExecRequeue ==
    /\ pc = "running"
    /\ calls # <<>>
    /\ Accepts(Head(calls))
    /\ Apply(Head(calls))
    /\ uuids' = UuidsAfter(Head(calls))
    /\ calls' = Append(Tail(calls), Head(calls))
    /\ UNCHANGED <<json_data, pc, error, runs, finished, tool>>
\* The next statement of the walk is executed; after the last one
\* (conn.close()) index_json returns.
Exec ==
    /\ pc = "running"
    /\ calls # <<>>
    /\ Accepts(Head(calls))
    /\ Apply(Head(calls))
    /\ uuids' = UuidsAfter(Head(calls))
    /\ calls' = Tail(calls)
    /\ pc' = IF Tail(calls) = <<>> THEN "done" ELSE "running"
    /\ finished' = IF Tail(calls) = <<>> THEN Append(finished, Summary("done", tables'))
                   ELSE finished
    /\ UNCHANGED <<json_data, error, runs, tool>>

\* ExecFail with the error caught and the walk going on with the next statement.
ExecFailSwallowed ==
    /\ pc = "running"
    /\ calls # <<>>
    /\ Head(calls).op # "raise"
    /\ pc' = IF Tail(calls) = <<>> THEN "done" ELSE "running"
    /\ error' = ""
    /\ uuids' = UuidsAfter(Head(calls))
    /\ calls' = Tail(calls)
    /\ finished' = IF Tail(calls) = <<>> THEN Append(finished, Summary("done", tables))
                   ELSE finished
    /\ UNCHANGED <<json_data, runs, dbVars, tool>>
\* The next statement fails in the backend (rejected, or the backend is
\* unavailable): conn.execute raises, nothing catches it, index_json ends
\* there with the connection left open.
ExecFail ==
    /\ pc = "running"
    /\ calls # <<>>
    /\ Head(calls).op # "raise"
    /\ pc' = "failed"
    /\ error' = "StorageError"
    /\ uuids' = UuidsAfter(Head(calls))
    /\ calls' = <<>>
    /\ finished' = Append(finished, Summary("failed", tables))
    /\ UNCHANGED <<json_data, runs, dbVars, tool>>

\* json_data.items() on a value that is not a dict.
Raise ==
    /\ pc = "running"
    /\ calls # <<>>
    /\ Head(calls).op = "raise"
    /\ pc' = "failed"
    /\ error' = Head(calls).name
    /\ calls' = <<>>
    /\ finished' = Append(finished, Summary("failed", tables))
    /\ UNCHANGED <<json_data, runs, uuids, dbVars, tool>>

\* One run of index_json on a fresh destination.
StartFresh == runs = 0 /\ \E doc \in Docs : Start(doc)
Next == StartFresh \/ Exec \/ ExecFail \/ Raise
Spec == Init /\ [][Next]_vars

\* One run of index_json, on a deeply nested document or on a value that is
\* no object, that is not suspended for ever: the interpreter goes on to the
\* next statement, which the backend executes or rejects.
StartDeep ==
    runs = 0 /\ \E doc \in Objects(MaxNodes, Keys) \cup ChainDocs \cup NonObjects : Start(doc)
NextTerm == StartDeep \/ Exec \/ ExecFail \/ Raise
SpecTerm == Init /\ [][NextTerm]_vars /\ WF_vars(Exec \/ ExecFail \/ Raise)

\* Up to MaxRuns runs of index_json against the same destination.
StartAgain == runs < MaxRuns /\ \E doc \in RerunDocs : Start(doc)
NextRerun == StartAgain \/ Exec \/ ExecFail \/ Raise
SpecRerun == Init /\ [][NextRerun]_vars

(***************************************************************************)
(* The catalog views (create_metadata_views), evaluated when read.         *)
(***************************************************************************)
HierarchyRow(s, level, path) ==
    [level |-> level, path |-> path, table_name |-> s.table_name,
     parent_table |-> s.parent_table, description |-> s.description,
     is_array |-> s.is_array, count |-> s.count]

RECURSIVE HierarchyFrom(_, _, _)
\* The recursive member of the CTE: the rows joined to the last batch, for
\* as long as a batch is not empty (fuel cuts a cyclic catalog off).
HierarchyFrom(rows, batch, fuel) ==
    IF batch = {} \/ fuel = 0 THEN {}
    ELSE batch \cup
         HierarchyFrom(rows,
                       {HierarchyRow(p[1], p[2].level + 1, p[2].path \o "." \o p[1].table_name) :
                           p \in {q \in rows \X batch : q[1].parent_table = <<q[2].table_name>>}},
                       fuel - 1)
\* table_hierarchy without the recursive member of the CTE: the root tables only.
TableHierarchyRootsOnly(rows) ==
    {HierarchyRow(s, 0, s.table_name) : s \in {r \in rows : r.parent_table = <<>>}}
\* SELECT ... FROM table_hierarchy.  UNION ALL keeps duplicates, and there are
\* none to keep: table_name is the PRIMARY KEY of schema_info, so the anchor
\* rows differ, and a row of the recursive member carries its table name and
\* the path of the row it was joined to.
table_hierarchy(rows) ==
    HierarchyFrom(rows, {HierarchyRow(s, 0, s.table_name) : s \in {r \in rows : r.parent_table = <<>>}},
                  Cardinality(rows) + 1)

\* SELECT ... FROM table_statistics
table_statistics(rows) ==
    {[table_name |-> s.table_name, is_array |-> s.is_array,
      expected_count |-> s.count, description |-> s.description] : s \in rows}

\* (SELECT s.count FROM schema_info s WHERE s.table_name = 'jobs') || ' jobs ...':
\* NULL when there is no such row or its count is NULL.
JobCount(rows) ==
    LET js == {r \in rows : r.table_name = "jobs" /\ r.count # <<>>}
    IN  IF js = {} THEN <<>>
        ELSE << IntStr((CHOOSE r \in js : TRUE).count[1])
                    \o " jobs are stored in the \"jobs\" table." >>
OverviewRow(rows) ==
    [overview |-> "This database contains "
                      \o IntStr(Cardinality({r.table_name : r \in rows}))
                      \o " tables representing a JSON document.",
     job_count |-> JobCount(rows)]
\* data_overview as a query grouped by table: no row for an empty catalog.
DataOverviewGrouped(rows) == IF rows = {} THEN {} ELSE {OverviewRow(rows)}
\* SELECT ... FROM data_overview: an aggregate without GROUP BY, one row
\* whatever schema_info holds.
data_overview(rows) == {OverviewRow(rows)}

\* SELECT table_name FROM schema_info WHERE parent_table IS NULL
RootTables == {r.table_name : r \in {s \in schema_info : s.parent_table = <<>>}}

Max(S) == CHOOSE x \in S : \A y \in S : y <= x

(***************************************************************************)
(* The agent tools that read the destination (src/agents/tools.py).  A     *)
(* tool call runs from its first to its last line with nothing else in     *)
(* between, so it is one action; fault is where the backend fails for a    *)
(* reason of its own, "none" when it does not.                             *)
(***************************************************************************)
Faults == {"none", "connect", "query"}
\* What a query can name: the catalog tables, the views, data tables.
QueryTargets == {"schema_info", "record_relationships", "table_hierarchy",
                 "table_statistics", "data_overview", "a", "a_a"}
\* The relation exists in the database.
Exists(target) == target \in (sysTables \cup TableNames \cup views)
\* len(cursor.fetchall()) of SELECT * FROM target.
QueryRows(target) ==
    CASE target \in {"schema_info", "table_statistics"} -> Cardinality(schema_info)
      [] target = "record_relationships" -> Len(record_relationships)
      [] target = "table_hierarchy" -> Cardinality(table_hierarchy(schema_info))
      [] target = "data_overview" -> 1
      [] OTHER -> RowCount(target)

ToolCall(name, target, fault, result, closed) ==
    [name |-> name, target |-> target, fault |-> fault, result |-> result, closed |-> closed]

\* query_duckdb(db_name, "SELECT * FROM target"): no exception is handled,
\* conn.close() is reached only after execute and fetchall returned.
query_duckdb(target, fault) ==
    /\ pc # "running"
    /\ dbFile' = (dbFile \/ fault # "connect")
    /\ tool' = IF fault = "connect"
               THEN ToolCall("query_duckdb", target, fault, "raised", TRUE)
               ELSE IF fault = "query" \/ ~Exists(target)
               THEN ToolCall("query_duckdb", target, fault, "raised", FALSE)
               ELSE IF QueryRows(target) = 0
               THEN ToolCall("query_duckdb", target, fault, "no_results", TRUE)
               ELSE ToolCall("query_duckdb", target, fault, "table", TRUE)
    /\ UNCHANGED <<json_data, pc, calls, error, runs, uuids, conn, sysTables,
                   schema_info, record_relationships, tables, views, finished>>

\* get_hierarchical_data_info(db_name): the probe of schema_info closes the
\* connection when it fails; the queries on data_overview and the per-table
\* counts are guarded; a failure of the queries on table_hierarchy,
\* schema_info or record_relationships goes to the outer except, which
\* returns the error text without closing.
get_hierarchical_data_info(fault) ==
    /\ pc # "running"
    /\ dbFile' = (dbFile \/ fault # "connect")
    /\ tool' = IF fault = "connect"
               THEN ToolCall("get_hierarchical_data_info", "", fault, "error_text", TRUE)
               ELSE IF "schema_info" \notin sysTables
               THEN ToolCall("get_hierarchical_data_info", "", fault, "error_text", TRUE)
               ELSE IF \/ fault = "query"
                       \/ "table_hierarchy" \notin views
                       \/ "record_relationships" \notin sysTables
               THEN ToolCall("get_hierarchical_data_info", "", fault, "error_text", FALSE)
               ELSE ToolCall("get_hierarchical_data_info", "", fault, "report", TRUE)
    /\ UNCHANGED <<json_data, pc, calls, error, runs, uuids, conn, sysTables,
                   schema_info, record_relationships, tables, views, finished>>

\* One run of index_json, with the tools called before or after it.
StartOnce == runs = 0 /\ \E doc \in RerunDocs : Start(doc)
QueryDuckdb == \E target \in QueryTargets, fault \in Faults : query_duckdb(target, fault)
GetHierarchicalDataInfo == \E fault \in Faults : get_hierarchical_data_info(fault)
NextTools == StartOnce \/ Exec \/ ExecFail \/ Raise \/ QueryDuckdb \/ GetHierarchicalDataInfo
SpecTools == Init /\ [][NextTools]_vars

(***************************************************************************)
(* Shape of the input document, for the statements about it.               *)
(***************************************************************************)
\* A nested value that process_nested_data decomposes into a child table
\* (section 4.5: a non-empty object or a non-empty array of objects).
Decomposed(value) ==
    \/ IsDict(value) /\ Truthy(value)
    \/ IsList(value) /\ Truthy(value) /\ AllDicts(value)
\* The objects that become the records of the table of a decomposed value.
RecordsOf(value) == IF IsDict(value) THEN {value} ELSE Range(value.v)

\* The fields of a record whose value is decomposed.
DecomposedFields(rec) == {j \in 1..Len(rec.v) : Decomposed(rec.v[j])}
\* The top-level values whose elements are inserted as they are (the array
\* and object branches of index_json); any other value is wrapped in
\* {"value": value}, which has no decomposed field.
TopDecomposed(value) == IsDict(value) \/ (IsList(value) /\ AllDicts(value))

RECURSIVE DepthBelow(_)
\* Nesting depth below the records of a table: 0 when no field is decomposed.
DepthBelow(value) ==
    LET below == UNION {{1 + DepthBelow(rec.v[j]) : j \in DecomposedFields(rec)}
                        : rec \in RecordsOf(value)}
    IN  IF below = {} THEN 0 ELSE Max(below)
\* Maximum nesting depth of a document, a top-level key being at depth 0.
DocDepth(doc) ==
    Max({0} \cup {DepthBelow(doc.v[i]) : i \in {j \in 1..Len(doc.v) : TopDecomposed(doc.v[j])}})

RECURSIVE NestedRecords(_, _)
\* The number of objects in the decomposed fields of a record, from field j.
NestedRecords(rec, j) ==
    IF j > Len(rec.v) THEN 0
    ELSE (IF ~Decomposed(rec.v[j]) THEN 0
          ELSE IF IsDict(rec.v[j]) THEN 1
          ELSE Len(rec.v[j].v))
         + NestedRecords(rec, j + 1)
RECURSIVE TreeDepth(_)
\* Height of the JSON value tree: the number of values on the longest path
\* from the value down to a scalar or an empty container.
TreeDepth(x) ==
    IF IsDict(x) \/ IsList(x)
    THEN 1 + Max({0} \cup {TreeDepth(x.v[i]) : i \in 1..Len(x.v)})
    ELSE 1
RECURSIVE InsertDataDepth(_)
RECURSIVE ProcessNestedDataDepth(_)
\* The largest number of insert_data and process_nested_data calls active at
\* once from a call insert_data(.., data, ..) on, the call itself included:
\* it calls process_nested_data for every non-empty dict or list field of
\* every dict it inserts.
InsertDataDepth(data) ==
    LET items == IF IsList(data) THEN {x \in Range(data.v) : IsDict(x)}
                 ELSE IF IsDict(data) THEN {data}
                 ELSE {}
    IN  1 + Max({0} \cup UNION {{ProcessNestedDataDepth(item.v[j]) :
                                    j \in {n \in 1..Len(item.v) :
                                              /\ IsDict(item.v[n]) \/ IsList(item.v[n])
                                              /\ Truthy(item.v[n])}}
                                : item \in items})
\* The same from a call process_nested_data(.., data, ..) on: it calls
\* insert_data on the same value when that is a non-empty array of objects
\* or an object, and returns at once otherwise.
ProcessNestedDataDepth(data) ==
    IF (IsList(data) /\ Truthy(data) /\ AllDicts(data)) \/ IsDict(data)
    THEN 1 + InsertDataDepth(data)
    ELSE 1
\* The largest number of insert_data and process_nested_data calls that are
\* active at once during index_json(json): one insert_data call per
\* top-level key, on the value or on {"value": value}.
StackDepth(json) ==
    IF ~IsDict(json) THEN 0
    ELSE Max({0} \cup {InsertDataDepth(IF TopDecomposed(json.v[i]) THEN json.v[i]
                                      ELSE Dict(<<"value">>, <<json.v[i]>>))
                       : i \in 1..Len(json.v)})

RECURSIVE PathsBelow(_, _)
\* The containment paths (key after key) of the values decomposed below the
\* records of the value at path prefix.
PathsBelow(prefix, value) ==
    UNION {UNION {{Append(prefix, rec.k[j])} \cup PathsBelow(Append(prefix, rec.k[j]), rec.v[j])
                  : j \in DecomposedFields(rec)}
           : rec \in RecordsOf(value)}
\* The containment paths of a document that get a table.
Paths(doc) ==
    {<<doc.k[i]>> : i \in 1..Len(doc.k)}
    \cup UNION {PathsBelow(<<doc.k[i]>>, doc.v[i])
                : i \in {j \in 1..Len(doc.v) : TopDecomposed(doc.v[j])}}

RECURSIVE NameOfPath(_)
\* The table name of a path: the top-level key, then f"{table_name}_{key}".
NameOfPath(p) ==
    IF Len(p) = 1 THEN p[1]
    ELSE NameOfPath(SubSeq(p, 1, Len(p) - 1)) \o "_" \o p[Len(p)]

Registered(name) == \E r \in schema_info : r.table_name = name
Next1 == IF calls = <<>> THEN Plain("none", "") ELSE Head(calls)

(***************************************************************************)
(* Properties.                                                             *)
(***************************************************************************)
\* C1: after one index_json run on a fresh destination, every top-level key
\* whose value is an array of objects of length N has a schema_info row with
\* count = N and a table holding exactly N records.
C1_RoundTripCount ==
    (pc = "done" /\ runs = 1 /\ IsDict(json_data)) =>
        \A i \in 1..Len(json_data.k) :
            LET key == json_data.k[i]
                value == json_data.v[i]
            IN  (IsList(value) /\ AllDicts(value)) =>
                    /\ \E r \in schema_info : r.table_name = key /\ r.count = <<Len(value.v)>>
                    /\ key \in TableNames
                    /\ RowCount(key) = Len(value.v)

\* C2: in every state, after any number of completed or aborted runs, each
\* record_relationships entry names a parent record that exists in its
\* parent table and a child record that exists in its child table.
C2_LineageClosure ==
    \A i \in 1..Len(record_relationships) :
        LET e == record_relationships[i]
        IN  /\ e.parent_table \in TableNames
            /\ e.parent_id \in RecordIds(e.parent_table)
            /\ e.child_table \in TableNames
            /\ e.child_id \in RecordIds(e.child_table)
\* A second run adds lineage to a destination where an earlier run was aborted.
C2_Witness ==
    /\ Len(finished) >= 1
    /\ finished[1].outcome = "failed"
    /\ runs = 2
    /\ Len(record_relationships) >= 2

\* C3: after index_json completes on a fresh destination the root tables
\* (schema_info rows with parent_table NULL, the level-0 rows of
\* table_hierarchy) are exactly the top-level keys of the document.
C3_RootsAreTopLevelKeys ==
    (pc = "done" /\ runs = 1 /\ IsDict(json_data)) =>
        /\ RootTables = Range(json_data.k)
        /\ {h.table_name : h \in {x \in table_hierarchy(schema_info) : x.level = 0}}
               = Range(json_data.k)

\* C4: after index_json completes on a fresh destination the maximum level
\* of table_hierarchy equals the maximum nesting depth of the document
\* through decomposed (object / non-empty array-of-objects) values.
C4_DepthPreserved ==
    (pc = "done" /\ runs = 1 /\ IsDict(json_data) /\ Len(json_data.k) > 0) =>
        /\ table_hierarchy(schema_info) # {}
        /\ Max({h.level : h \in table_hierarchy(schema_info)}) = DocDepth(json_data)

\* C5: the column set handed to create_table for a non-empty array of
\* objects is the union of the keys of all its elements, no key missing and
\* none added.
C5_ColumnsAreUnionOfKeys ==
    \A i \in 1..Len(calls) :
        (calls[i].op = "create_data_table" /\ calls[i].meta.is_array /\ Truthy(calls[i].src[1])) =>
            /\ \A e \in Range(calls[i].src[1].v) : Range(e.k) \subseteq calls[i].cols
            /\ \A c \in calls[i].cols : \E e \in Range(calls[i].src[1].v) : c \in Range(e.k)
\* create_table is about to be called for an array whose elements have
\* different key sets.
C5_Witness ==
    /\ pc = "running"
    /\ Next1.op = "create_data_table"
    /\ Next1.meta.is_array
    /\ \E e1, e2 \in Range(Next1.src[1].v) : Range(e1.k) # Range(e2.k) /\ Range(e1.k) # {}
    /\ Next1.cols = Keys

\* C6: whenever the engine inserts an element into a table, every key of the
\* element is a column of the table (a child table fed by several parent
\* records has the union of the keys of all elements decomposed into it).
C6_InsertKeysAreColumns ==
    (pc = "running" /\ Next1.op = "insert_row") =>
        /\ Next1.name \in TableNames
        /\ Next1.cols \subseteq tables[Next1.name].columns

\* C7: create_table on a table name that is already registered leaves
\* exactly one schema_info row for the name, carrying the metadata of the
\* latest call, and leaves the columns and rows of the data table unchanged.
C7_Reregistration ==
    [][ (pc = "running" /\ pc' # "failed" /\ Registered(Next1.name)
            /\ Next1.op \in {"create_data_table", "upsert_schema_info"}) =>
          /\ tables' = tables
          /\ Next1.op = "upsert_schema_info" =>
                {r \in schema_info' : r.table_name = Next1.name} = {SchemaRow(Next1)}
          /\ Cardinality({r \in schema_info' : r.table_name = Next1.name}) = 1 ]_vars
\* A table with records, registered as a child table and registered again
\* with other metadata (as a root table).
C7_Witness ==
    \E r \in schema_info :
        /\ r.parent_table = <<>>
        /\ RowCount(r.table_name) > 0
        /\ \E i \in 1..Len(record_relationships) :
               record_relationships[i].child_table = r.table_name

\* C8: index_json run twice in sequence on the same destination with the
\* same document gives the same set of table names as the first run and
\* exactly twice the records of the first run in every data table; the
\* second run issues no statement the backend has to reject.
C8_RerunDoubles ==
    /\ (/\ Len(finished) >= 2
        /\ finished[1].outcome = "done"
        /\ finished[2].outcome = "done"
        /\ finished[1].doc = finished[2].doc) =>
           /\ finished[2].catalog = finished[1].catalog
           /\ DOMAIN finished[2].rows = DOMAIN finished[1].rows
           /\ \A t \in DOMAIN finished[1].rows : finished[2].rows[t] = 2 * finished[1].rows[t]
    /\ (/\ Len(finished) = 1
        /\ finished[1].outcome = "done"
        /\ finished[1].doc = json_data
        /\ pc = "running") => Accepts(Next1)
\* Two completed runs of a document that has a child table.
C8_Witness ==
    /\ Len(finished) >= 2
    /\ finished[1].outcome = "done"
    /\ finished[2].outcome = "done"
    /\ finished[1].doc = finished[2].doc
    /\ Len(record_relationships) >= 2
    /\ \E t \in DOMAIN finished[2].rows : finished[2].rows[t] >= 2

\* C9: table names are collision-free within a run: two distinct
\* containment paths never map to the same table name, so each table has
\* exactly one parent (a root table none).
C9_NamesCollisionFree ==
    (runs = 1 /\ IsDict(json_data)) =>
        /\ \A p, q \in Paths(json_data) : p # q => NameOfPath(p) # NameOfPath(q)
        /\ \A i, j \in 1..Len(record_relationships) :
               record_relationships[i].child_table = record_relationships[j].child_table
                   => record_relationships[i].parent_table = record_relationships[j].parent_table
        /\ \A i \in 1..Len(record_relationships) :
               record_relationships[i].child_table \notin Range(json_data.k)

\* C10: an input that is not a JSON object at the top level is rejected
\* before any storage call: no database is created and no table (schema_info
\* and record_relationships included) is created or written.
C10_NonObjectRejectedBeforeStorage ==
    (runs = 1 /\ ~IsDict(json_data)) =>
        /\ ~dbFile
        /\ sysTables = {}
        /\ tables = NoTables

\* C11: when a storage call of index_json fails the call ends there with the
\* error: the failed statement and every later one leave the database as it
\* was (no later call is issued, no view is built), the error is kept, and
\* the run is recorded as failed.  A run goes on or reports success only by
\* a statement that the backend accepted and that took effect.
C11_FailureAborts ==
    [][ /\ pc = "running" =>
            \/ /\ pc' = "failed"
               /\ calls' = <<>>
               /\ error' # ""
               /\ UNCHANGED dbVars
               /\ finished'[Len(finished')].outcome = "failed"
            \/ /\ pc' \in {"running", "done"}
               /\ Accepts(Next1)
               /\ Apply(Next1)
               /\ calls' = Tail(calls)
               /\ error' = ""
        /\ pc = "failed" => UNCHANGED dbVars ]_vars
\* A run aborted by a storage error after rows were written and before the
\* views were built.
C11_Witness ==
    /\ pc = "failed"
    /\ error = "StorageError"
    /\ \E t \in TableNames : RowCount(t) > 0
    /\ Len(record_relationships) > 0
    /\ views = {}

\* C12: a call of get_hierarchical_data_info or of query_duckdb on a
\* destination that was never indexed, the backend itself working, ends with
\* a not-found / error result value and never with an exception.
C12_NeverIndexedNotFound ==
    (runs = 0 /\ tool.name # "none" /\ tool.fault = "none") =>
        tool.result \in {"error_text", "no_results"}

\* C13: after index_json completes on a fresh destination, a top-level key
\* whose value is a non-empty array with at least one element that is no
\* object has one table with the single column value and exactly one record;
\* no table is registered as its child and no relationship entry names it.
C13_MixedArrayIsOneRecord ==
    (pc = "done" /\ runs = 1 /\ IsDict(json_data)) =>
        \A i \in 1..Len(json_data.k) :
            LET key == json_data.k[i]
            IN  json_data.v[i] \in MixedArrays =>
                    /\ key \in TableNames
                    /\ tables[key].columns = {"value"}
                    /\ RowCount(key) = 1
                    /\ \A r \in schema_info : r.parent_table # <<key>>
                    /\ \A j \in 1..Len(record_relationships) :
                           /\ record_relationships[j].child_table # key
                           /\ record_relationships[j].parent_table # key

\* C14: after index_json completes for the empty document {} on a fresh
\* destination no table is registered: schema_info, table_hierarchy and
\* table_statistics are empty, there is no data table and no relationship
\* entry, and data_overview yields exactly one row, whose table count is 0.
C14_EmptyDocument ==
    (pc = "done" /\ runs = 1 /\ json_data = Dict(<<>>, <<>>)) =>
        /\ schema_info = {}
        /\ tables = NoTables
        /\ record_relationships = <<>>
        /\ {"table_hierarchy", "table_statistics", "data_overview"} \subseteq views
        /\ table_hierarchy(schema_info) = {}
        /\ table_statistics(schema_info) = {}
        /\ Cardinality(data_overview(schema_info)) = 1
        /\ \A o \in data_overview(schema_info) :
               o.overview = "This database contains 0 tables representing a JSON document."
\* index_json returned for the empty document.
C14_Witness ==
    /\ pc = "done"
    /\ runs = 1
    /\ json_data = Dict(<<>>, <<>>)
    /\ "data_overview" \in views
    /\ ~conn

\* C15 as stated: index_json ends, normally or with an error, for every
\* document, and the number of insert_data / process_nested_data calls active
\* at once never exceeds the nesting depth of the document (the height of its
\* value tree, the most generous measure).
C15_TerminatesWithinDepth ==
    /\ [](pc = "running" => StackDepth(json_data) <= TreeDepth(json_data))
    /\ (pc = "running") ~> (pc # "running")
\* C15 amended: index_json ends, normally or with an error, for every
\* document, and the number of insert_data / process_nested_data calls active
\* at once never exceeds twice the nesting depth of the document: a nested
\* value costs two calls, process_nested_data and the insert_data it calls on
\* the same value.
C15_TerminatesWithinTwiceDepth ==
    /\ [](pc = "running" => StackDepth(json_data) <= 2 * TreeDepth(json_data))
    /\ (pc = "running") ~> (pc # "running")
\* index_json returned for a document whose walk was deeper than the
\* document is nested.
C15_Witness ==
    /\ pc = "done"
    /\ StackDepth(json_data) > TreeDepth(json_data)

\* C16: a top-level key whose value is the empty array [] takes the scalar
\* branch: the table is created with the single column value and registered
\* with is_array = false, and when index_json has completed on a fresh
\* destination the table holds exactly one record, the text of the array.
C16_EmptyArrayIsScalar ==
    /\ (/\ pc = "running"
        /\ Next1.op \in {"create_data_table", "upsert_schema_info"}
        /\ Next1.meta.parent_table = <<>>
        /\ Next1.src = <<List(<<>>)>>) =>
           /\ ~Next1.meta.is_array
           /\ Next1.cols = {"value"}
    /\ (pc = "done" /\ runs = 1 /\ IsDict(json_data)) =>
           \A i \in 1..Len(json_data.k) :
               LET key == json_data.k[i]
               IN  json_data.v[i] = List(<<>>) =>
                       /\ \E r \in schema_info : r.table_name = key /\ ~r.is_array
                       /\ key \in TableNames
                       /\ tables[key].columns = {"value"}
                       /\ {r.values : r \in tables[key].rows} = {<< <<"value", "[]">> >>}

\* C17: the catalog row written for a table created from an array carries the
\* length of the array as expected count, the row written for a table
\* created from a single object or from a scalar carries 1; so every row of
\* schema_info that is no array row has count 1.
C17_ExpectedCount ==
    /\ (pc = "running" /\ Next1.op = "upsert_schema_info") =>
           Next1.meta.count = IF Next1.meta.is_array THEN <<Len(Next1.src[1].v)>> ELSE <<1>>
    /\ \A r \in schema_info : ~r.is_array => r.count = <<1>>

\* C18: a child table is registered at its first encounter in a run only:
\* when a later parent record carries a nested value that maps to a child
\* table name already in the catalog, the catalog row of that table
\* (parent_table, is_array, count, description) stays as it is.
C18_RegisteredOnce ==
    [][ (/\ pc = "running"
         /\ runs = 1
         /\ Next1.op = "upsert_schema_info"
         /\ Next1.meta.parent_table # <<>>
         /\ Registered(Next1.name)) => schema_info' = schema_info ]_vars

\* C19: a nested field whose value is an empty object, an empty array or an
\* array with an element that is no object is not decomposed.  No child
\* table is ever registered from such a value; the record that holds it is
\* inserted with every field as text; and the relationship entries that name
\* the record as parent are one per object of its decomposed fields, so such
\* a field adds no record and no entry.
C19_NotDecomposed ==
    \A i \in 1..Len(calls) :
        LET st == calls[i]
        IN  /\ (st.op \in {"create_data_table", "upsert_schema_info"}
                    /\ st.meta.parent_table # <<>>) => Decomposed(st.src[1])
            /\ st.op = "insert_row" =>
                   LET item == st.src[1]
                   IN  /\ st.vals = [j \in 1..Len(item.k) |-> <<item.k[j], PyStr(item.v[j])>>]
                       /\ Cardinality({n \in 1..Len(calls) :
                                          /\ calls[n].op = "insert_relationship"
                                          /\ calls[n].rel[1].parent_id = st.id})
                              = NestedRecords(item, 1)
\* index_json returned after it stored a nested array of scalars as text in
\* the record that holds it, without a table for it.
C19_Witness ==
    /\ pc = "done"
    /\ \E t \in TableNames : \E r \in tables[t].rows : \E j \in 1..Len(r.values) :
           /\ r.values[j][1] \in Keys
           /\ r.values[j][2] = "['s']"
           /\ (t \o "_" \o r.values[j][1]) \notin TableNames

\* C20: every record inserted for a nested value gets exactly one
\* relationship entry, written right after its insert, that links it to the
\* record that contained it, with kind array_item[i] (i its position in the
\* array) when the nested value is an array and object_field when it is an
\* object; after a completed run on a fresh destination the records of the
\* tables of top-level keys have no relationship entry and every other
\* record has exactly one.
C20_OneEntryPerNestedRecord ==
    /\ (pc = "running" /\ Next1.op = "connect") =>
           \A n \in 1..Len(calls) :
               calls[n].op = "insert_relationship" =>
                   LET e == calls[n].rel[1]
                   IN  /\ calls[n - 1].op = "insert_row"
                       /\ calls[n - 1].id = e.child_id
                       /\ calls[n - 1].name = e.child_table
                       /\ \E m \in 1..(n - 2) :
                              /\ calls[m].op = "insert_row"
                              /\ calls[m].id = e.parent_id
                              /\ calls[m].name = e.parent_table
                              /\ \E j \in 1..Len(calls[m].src[1].k) :
                                     LET value == calls[m].src[1].v[j]
                                     IN  /\ e.child_table
                                               = e.parent_table \o "_" \o calls[m].src[1].k[j]
                                         /\ \/ /\ IsDict(value)
                                               /\ e.relationship_type = "object_field"
                                               /\ calls[n - 1].src[1] = value
                                            \/ /\ IsList(value)
                                               /\ \E i \in 1..Len(value.v) :
                                                      /\ e.relationship_type
                                                             = "array_item[" \o IntStr(i - 1) \o "]"
                                                      /\ calls[n - 1].src[1] = value.v[i]
    /\ (pc = "done" /\ runs = 1 /\ IsDict(json_data)) =>
           \A t \in TableNames : \A r \in tables[t].rows :
               Cardinality({n \in 1..Len(record_relationships) :
                               /\ record_relationships[n].child_id = r.record_id
                               /\ record_relationships[n].child_table = t})
                   = IF t \in Range(json_data.k) THEN 0 ELSE 1

\* The statement at position n of the remaining walk has a statement before
\* it that registers table name in the catalog.
RegisteredBefore(n, name) ==
    \E m \in 1..(n - 1) : calls[m].op = "upsert_schema_info" /\ calls[m].name = name
\* The statement at position n of the remaining walk has the insert of record
\* id into table name before it.
InsertedBefore(n, name, id) ==
    \E m \in 1..(n - 1) : calls[m].op = "insert_row" /\ calls[m].name = name /\ calls[m].id = id
\* The record id is stored in table name.
Stored(name, id) == name \in TableNames /\ id \in RecordIds(name)

\* C21: in the sequence of storage calls of index_json, every row insert
\* into a table comes after the registration of the table, every
\* registration of a child table comes after the registration of its parent
\* table, and every relationship entry comes after the insert of the parent
\* record and of the child record it names.  At every point of a run this
\* reads: what a remaining call needs was done already or is done by a call
\* before it; so every non-null parent_table of the catalog names a table of
\* the catalog, every table that holds a record is in the catalog, and every
\* entry of the ledger names two stored records.
C21_OrderedCalls ==
    /\ \A n \in 1..Len(calls) :
           LET st == calls[n]
           IN  /\ st.op = "insert_row" =>
                      /\ Registered(st.name) \/ RegisteredBefore(n, st.name)
                      /\ st.name \in TableNames \/ \E m \in 1..(n - 1) :
                             calls[m].op = "create_data_table" /\ calls[m].name = st.name
               /\ (st.op = "upsert_schema_info" /\ st.meta.parent_table # <<>>) =>
                      \/ Registered(st.meta.parent_table[1])
                      \/ RegisteredBefore(n, st.meta.parent_table[1])
               /\ st.op = "insert_relationship" =>
                      /\ \/ Stored(st.rel[1].child_table, st.rel[1].child_id)
                         \/ InsertedBefore(n, st.rel[1].child_table, st.rel[1].child_id)
                      /\ \/ Stored(st.rel[1].parent_table, st.rel[1].parent_id)
                         \/ InsertedBefore(n, st.rel[1].parent_table, st.rel[1].parent_id)
    /\ \A r \in schema_info : r.parent_table # <<>> => Registered(r.parent_table[1])
    /\ \A t \in TableNames : RowCount(t) > 0 => Registered(t)
    /\ \A i \in 1..Len(record_relationships) :
           /\ Stored(record_relationships[i].child_table, record_relationships[i].child_id)
           /\ Stored(record_relationships[i].parent_table, record_relationships[i].parent_id)
\* index_json returned after it registered a table whose parent table is
\* itself a child table and linked records over both levels.
C21_Witness ==
    /\ pc = "done"
    /\ \E r, p \in schema_info :
           /\ r.parent_table = <<p.table_name>>
           /\ p.parent_table # <<>>
           /\ p.table_name # r.table_name
           /\ \E i, j \in 1..Len(record_relationships) :
                  /\ record_relationships[i].child_table = r.table_name
                  /\ record_relationships[j].child_table = p.table_name
                  /\ record_relationships[i].parent_id = record_relationships[j].child_id

RECURSIVE HasRoot(_, _, _)
\* From the catalog row of table name, parent_table after parent_table leads
\* to a row whose parent_table is NULL in at most fuel steps.
HasRoot(rows, name, fuel) ==
    \E r \in rows :
        /\ r.table_name = name
        /\ \/ r.parent_table = <<>>
           \/ fuel > 0 /\ HasRoot(rows, r.parent_table[1], fuel - 1)

\* C22: whatever the catalog holds during and after any run, table_hierarchy
\* has exactly one row per schema_info row: a table with parent_table NULL is
\* at level 0 with its name as path, every other table is one level below
\* the row of its parent table with path = the parent's path, ".", its name.
\* The parent relation of the catalog has no cycle (every table leads to a
\* root table), so the recursion of the view ends with every table reached.
C22_HierarchyCoversCatalog ==
    LET H == table_hierarchy(schema_info)
    IN  /\ Cardinality(H) = Cardinality(schema_info)
        /\ \A s \in schema_info :
               /\ HasRoot(schema_info, s.table_name, Cardinality(schema_info))
               /\ Cardinality({h \in H : h.table_name = s.table_name}) = 1
               /\ \A h \in H : h.table_name = s.table_name =>
                      /\ h = HierarchyRow(s, h.level, h.path)
                      /\ IF s.parent_table = <<>>
                         THEN h.level = 0 /\ h.path = s.table_name
                         ELSE \E hp \in H :
                                  /\ hp.table_name = s.parent_table[1]
                                  /\ h.level = hp.level + 1
                                  /\ h.path = hp.path \o "." \o s.table_name
\* index_json returned with the views built and table_hierarchy shows a
\* table two levels below a root table.
C22_Witness ==
    /\ pc = "done"
    /\ "table_hierarchy" \in views
    /\ \E h \in table_hierarchy(schema_info) : h.level = 2 /\ h.path = "a.a_a.a_a_a"

RECURSIVE FirstAppearance(_, _, _)
\* The keys of the elements i.. of an array in the order in which each is
\* first met, after those of seen.
FirstAppearance(items, i, seen) ==
    IF i > Len(items) THEN seen
    ELSE LET New(k) == k \notin Range(seen)
         IN  FirstAppearance(items, i + 1, seen \o SelectSeq(items[i].k, New))

\* C23: the column list of the CREATE TABLE statement issued for an array of
\* objects has the keys in the order of their first appearance across the
\* elements; so the definition of the table of a top-level array of objects
\* (the only top-level key of the document), after index_json completed on a
\* fresh destination, is a function of the document, the same for every run
\* on it.
C23_FirstAppearanceOrder ==
    /\ (pc = "running" /\ Next1.op = "create_data_table" /\ Next1.meta.is_array) =>
           Next1.columns = FirstAppearance(Next1.src[1].v, 1, <<>>)
    /\ (pc = "done" /\ runs = 1 /\ IsDict(json_data) /\ Len(json_data.k) = 1) =>
           \A i \in 1..Len(json_data.k) :
               (IsList(json_data.v[i]) /\ AllDicts(json_data.v[i])) =>
                   tables[json_data.k[i]].definition
                       = FirstAppearance(json_data.v[i].v, 1, <<>>)

\* C24: over any sequence of index_json runs on a destination, completed or
\* aborted, every step keeps every data table with its columns and all its
\* records as they are, keeps every relationship entry in its place, keeps a
\* catalog row for every table name that had one, and gives a new record an
\* identifier that no record of any table has; identifiers are unique within
\* a table.
C24_OnlyGrows ==
    [][ /\ \A t \in DOMAIN tables :
               /\ t \in DOMAIN tables'
               /\ tables[t].rows \subseteq tables'[t].rows
               /\ tables'[t].columns = tables[t].columns
               /\ tables'[t].definition = tables[t].definition
               /\ \A r \in tables'[t].rows \ tables[t].rows :
                      \A u \in DOMAIN tables : r.record_id \notin RecordIds(u)
        /\ \A t \in DOMAIN tables' :
               Cardinality({r.record_id : r \in tables'[t].rows}) = Cardinality(tables'[t].rows)
        /\ Len(record_relationships') >= Len(record_relationships)
        /\ SubSeq(record_relationships', 1, Len(record_relationships)) = record_relationships
        /\ {r.table_name : r \in schema_info} \subseteq {r.table_name : r \in schema_info'} ]_vars
\* A second run, on another document than the first, added records and
\* relationship entries to what the first run left.
C24_Witness ==
    /\ runs = 2
    /\ pc = "done"
    /\ Len(finished) = 2
    /\ finished[1].doc # finished[2].doc
    /\ \E t \in DOMAIN finished[1].rows : finished[1].rows[t] > 0 /\ RowCount(t) > finished[1].rows[t]
    /\ Len(record_relationships) >= 2
    /\ \E r, q \in schema_info : r.table_name = "a" /\ q.parent_table = <<"a">>

\* C25: in every state of any sequence of index_json runs, the runs aborted
\* by a storage error included, every schema_info row names a data table
\* that exists and no table name has two rows; a create_table call that
\* completes leaves exactly one row for its table, and a table that holds a
\* record has one.  The catalog never describes a table that was not created.
C25_CatalogMatchesStorage ==
    /\ [](/\ \A r \in schema_info : r.table_name \in TableNames
          /\ \A t \in TableNames :
                 /\ Cardinality({r \in schema_info : r.table_name = t}) <= 1
                 /\ RowCount(t) > 0 => Registered(t))
    /\ [][ (pc = "running" /\ Next1.op = "upsert_schema_info" /\ pc' # "failed") =>
              /\ Next1.name \in DOMAIN tables'
              /\ Cardinality({r \in schema_info' : r.table_name = Next1.name}) = 1 ]_vars
\* A run was aborted by a storage error inside create_table, between the
\* creation of a table and its registration: the table exists without a
\* catalog row, next to a table that is registered and holds a record.
C25_Witness ==
    /\ pc = "failed"
    /\ error = "StorageError"
    /\ \E t \in TableNames : ~Registered(t)
    /\ \E t \in TableNames : Registered(t) /\ RowCount(t) > 0

\* C26: every call of query_duckdb and of get_hierarchical_data_info ends,
\* by return or by exception, with the DuckDB connection it opened closed:
\* also when a query fails, as the one on table_hierarchy does when
\* schema_info exists and the view was never built.
C26_ToolClosesConnection ==
    tool.name # "none" => tool.closed

====
